---- MODULE Spec2Model ----
(***************************************************************************)
(* State-machine model of src/app/main.py: a Flask service with the routes *)
(* /, /health, /crash and /metrics, a 404 and a 500 error handler, and the  *)
(* module-level configuration read once at import.                         *)
(*                                                                         *)
(* Requests are GET requests (the routes are registered without a         *)
(* `methods=` argument).  The development server handles every connection  *)
(* on its own thread, so handlers of different connections interleave at   *)
(* the points where they read the clock or the resolver.                   *)
(*                                                                         *)
(* Strings the properties inspect character by character (the uptime      *)
(* string) are sequences of one-character strings.                         *)
(***************************************************************************)
EXTENDS Integers, Sequences, FiniteSets, TLC

\* ------------------------------------------------------------------ bounds
NumClients == 2
MaxTicks == 1
MaxDays == 2

Clients == 1..NumClients

\* ------------------------------------------------------------ wall clock
\* datetime.now(): a naive local wall-clock reading, whole seconds plus a
\* microsecond field.  Nothing makes it monotonic (NTP steps, DST changes).
\* The readings taken are half a second apart.
Instants == {[s |-> t \div 2, us |-> 500000 * (t % 2)] : t \in 0..MaxTicks}

Before(a, b) == a.s < b.s \/ (a.s = b.s /\ a.us < b.us)

\* datetime - datetime: a normalised timedelta (0 <= seconds < 86400,
\* 0 <= microseconds < 10^6, days may be negative).
timedelta_sub(a, b) ==
    LET dus  == a.us - b.us
        us   == dus % 1000000
        secs == (a.s - b.s) + ((dus - us) \div 1000000)
    IN  [days |-> secs \div 86400, seconds |-> secs % 86400, microseconds |-> us]

\* timedelta.total_seconds(), as an exact count of microseconds.
total_seconds(td) == (td.days * 86400 + td.seconds) * 1000000 + td.microseconds

\* --------------------------------------------------------------- strings
Digit(n) == <<"0", "1", "2", "3", "4", "5", "6", "7", "8", "9">>[n + 1]

RECURSIVE NatStr(_)
NatStr(n) == IF n < 10 THEN <<Digit(n)>> ELSE NatStr(n \div 10) \o <<Digit(n % 10)>>

\* "%d" % n
FmtD(n) == IF n < 0 THEN <<"-">> \o NatStr(0 - n) ELSE NatStr(n)

RECURSIVE Zeros(_)
Zeros(k) == IF k <= 0 THEN <<>> ELSE <<"0">> \o Zeros(k - 1)

\* "%0wd" % n for n >= 0
FmtPad(n, w) == Zeros(w - Len(NatStr(n))) \o NatStr(n)

Abs(n) == IF n < 0 THEN 0 - n ELSE n

\* str(timedelta)
str_timedelta(td) ==
    LET mm0 == td.seconds \div 60
        ss  == td.seconds % 60
        hh  == mm0 \div 60
        mm  == mm0 % 60
        s0  == FmtD(hh) \o <<":">> \o FmtPad(mm, 2) \o <<":">> \o FmtPad(ss, 2)
        s1  == IF td.days # 0
               THEN FmtD(td.days) \o <<" ", "d", "a", "y">>
                    \o (IF Abs(td.days) # 1 THEN <<"s">> ELSE <<>>)
                    \o <<",", " ">> \o s0
               ELSE s0
    IN  IF td.microseconds # 0
        THEN s1 \o <<".">> \o FmtPad(td.microseconds, 6)
        ELSE s1

\* s.split('.')[0]
split_dot_first(s) ==
    IF \E i \in 1..Len(s) : s[i] = "."
    THEN SubSeq(s, 1, (CHOOSE i \in 1..Len(s) :
                          s[i] = "." /\ \A j \in 1..(i - 1) : s[j] # ".") - 1)
    ELSE s

\* get_uptime() that returns str(uptime) whole, fraction included
get_uptime_nosplit(nowv, start) == str_timedelta(timedelta_sub(nowv, start))

\* get_uptime(), given the clock reading it takes and START_TIME
get_uptime(nowv, start) == split_dot_first(str_timedelta(timedelta_sub(nowv, start)))


\* ------------------------------------------------------------ environment
EnvNames == {"APP_VERSION", "APP_ENV"}

\* os.getenv(k, default) against the process environment env
getenv(env, k, default) == IF k \in DOMAIN env THEN env[k] ELSE default

\* Nothing set (the defaults apply), or both variables set.
Environs ==
    {[k \in {} |-> ""],
     [k \in EnvNames |-> IF k = "APP_VERSION" THEN "2.3.1" ELSE "staging"]}

\* ---------------------------------------------------------------- routing
Routes == {"/", "/health", "/crash", "/metrics"}
Paths == Routes \cup {"/nope"}

Hostname == "pod-0"
PodIP == "10.0.0.7"

NoPod == [hostname |-> "", ip |-> ""]
NoBody == [empty |-> TRUE]
Idle == [stage |-> "idle", path |-> "", pod |-> NoPod, fault |-> "",
         status |-> 0, body |-> NoBody, floor |-> {}]

VARIABLES
    environ,      \* os.environ of the process
    APP_VERSION,  \* module global, line 26
    APP_ENV,      \* module global, line 27
    START_TIME,   \* module global, line 31
    proc,         \* "init" | "running" | "exited"
    exitCode,     \* exit status once exited, -1 before
    now,          \* the wall clock datetime.now() reads
    resolverUp,   \* whether socket.gethostbyname(hostname) succeeds right now
    conn          \* per client connection: the request and what came back

vars == <<environ, APP_VERSION, APP_ENV, START_TIME, proc, exitCode, now,
          resolverUp, conn>>

globals == <<APP_VERSION, APP_ENV, START_TIME>>

\* app.run(debug=(APP_ENV == 'development'))
debug == (APP_ENV = "development")

\* ------------------------------------------------------- helper functions
\* get_pod_info(): the value returned when the lookup succeeds
get_pod_info == [hostname |-> Hostname, ip |-> PodIP]

\* the exception socket.gethostbyname raises when the lookup fails
gaierror == "socket.gaierror: [Errno -2] Name or service not known"

Response(st, b) == [status |-> st, body |-> b]

\* home() that forgets the timestamp
home_notimestamp(pod_info, nowv) ==
    Response(200,
        [message |-> "Self-Healing Web App Status",
         version |-> APP_VERSION,
         environment |-> APP_ENV,
         pod |-> [hostname |-> pod_info.hostname,
                  ip |-> pod_info.ip,
                  uptime |-> get_uptime(nowv, START_TIME)]])

\* home(): the payload, given the pod info and the clock reading
home(pod_info, nowv) ==
    Response(200,
        [message |-> "Self-Healing Web App Status",
         version |-> APP_VERSION,
         environment |-> APP_ENV,
         pod |-> [hostname |-> pod_info.hostname,
                  ip |-> pod_info.ip,
                  uptime |-> get_uptime(nowv, START_TIME)],
         timestamp |-> nowv])

\* health()
health(nowv) ==
    Response(200, [status |-> "healthy", uptime |-> get_uptime(nowv, START_TIME)])

\* metrics() that reads the environment on every call
metrics_getenv(nowv) ==
    Response(200,
        [uptime_seconds |-> total_seconds(timedelta_sub(nowv, START_TIME)),
         version |-> getenv(environ, "APP_VERSION", "1.0.0"),
         environment |-> getenv(environ, "APP_ENV", "development")])

\* metrics()
metrics(nowv) ==
    Response(200,
        [uptime_seconds |-> total_seconds(timedelta_sub(nowv, START_TIME)),
         version |-> APP_VERSION,
         environment |-> APP_ENV])

\* not_found(error) that keeps the framework's default 404 page
not_found_default(error) == Response(404, [html |-> error])

\* not_found(error)
not_found(error) ==
    Response(404,
        [error |-> "Not Found",
         message |-> "The requested endpoint does not exist on this service"])

\* internal_error(error) that puts the exception text in the message
internal_error_leaky(error) ==
    Response(500, [error |-> "Internal Server Error", message |-> error])

\* internal_error(error)
internal_error(error) ==
    Response(500,
        [error |-> "Internal Server Error",
         message |-> "An unexpected condition was encountered by the server."])

\* What an exception escaping a view function turns into.  With debug on Flask
\* re-raises it instead of calling the 500 handler, and the development
\* server's debugger answers with its traceback page.
handle_exception(error) ==
    IF debug
    THEN Response(500, [traceback |-> error])
    ELSE internal_error(error)


\* ------------------------------------------------------------------ state
Init ==
    /\ environ \in Environs
    /\ APP_VERSION = ""
    /\ APP_ENV = ""
    /\ START_TIME = [s |-> 0, us |-> 0]
    /\ proc = "init"
    /\ exitCode = -1
    /\ now = [s |-> 0, us |-> 0]
    /\ resolverUp \in BOOLEAN
    /\ conn = [c \in Clients |-> Idle]

\* Module import followed by app.run(): the globals are read once, then the
\* server accepts connections.
Start ==
    /\ proc = "init"
    /\ APP_VERSION' = getenv(environ, "APP_VERSION", "1.0.0")
    /\ APP_ENV' = getenv(environ, "APP_ENV", "development")
    /\ START_TIME' = now
    /\ proc' = "running"
    /\ UNCHANGED <<environ, exitCode, now, resolverUp, conn>>

\* ------------------------------------------------------------ environment
\* The wall clock advances.
Tick ==
    /\ proc = "running"
    /\ \E t \in Instants : Before(now, t) /\ now' = t
    /\ UNCHANGED <<environ, globals, proc, exitCode, resolverUp, conn>>

\* The wall clock is set back (clock synchronisation, a DST change of the
\* naive local time datetime.now() returns).
ClockSetBack ==
    /\ proc = "running"
    /\ \E t \in Instants : Before(t, now) /\ now' = t
    /\ UNCHANGED <<environ, globals, proc, exitCode, resolverUp, conn>>

\* Name resolution starts or stops working.
ResolverChange ==
    /\ proc = "running"
    /\ resolverUp' = ~resolverUp
    /\ UNCHANGED <<environ, globals, proc, exitCode, now, conn>>

\* The environment variables change after startup.
EnvChange ==
    /\ proc = "running"
    /\ \E e \in Environs : e # environ /\ environ' = e
    /\ UNCHANGED <<globals, proc, exitCode, now, resolverUp, conn>>

\* --------------------------------------------------------------- requests
Finished(c) == conn[c].stage \in {"idle", "delivered", "reset"}

\* The uptime_seconds values of the /metrics calls that have completed (their
\* responses are with the clients).
Completed ==
    {conn[d].body.uptime_seconds :
        d \in {e \in Clients : /\ conn[e].stage = "delivered"
                               /\ conn[e].path = "/metrics"
                               /\ conn[e].status = 200}}

\* The greatest of them, if any.
Floor ==
    IF Completed = {} THEN {}
    ELSE {CHOOSE m \in Completed : \A x \in Completed : x <= m}

\* Client c sends GET p on a fresh connection.  floor remembers, for a /metrics
\* call, the greatest value of the calls that completed before it began.
Request(c, p) ==
    /\ proc = "running"
    /\ Finished(c)
    /\ conn' = [conn EXCEPT ![c] = [Idle EXCEPT !.stage = "sent", !.path = p,
                                                !.floor = IF p = "/metrics" THEN Floor
                                                          ELSE {}]]
    /\ UNCHANGED <<environ, globals, proc, exitCode, now, resolverUp>>

Returned(c, r) ==
    conn' = [conn EXCEPT ![c].stage = "returned", ![c].status = r.status,
                         ![c].body = r.body]

Faulted(c, error) ==
    LET r == handle_exception(error)
    IN  conn' = [conn EXCEPT ![c].stage = "returned", ![c].fault = error,
                             ![c].status = r.status, ![c].body = r.body]

\* ResolvePod where a failed lookup takes the process down
ResolvePod_fatal(c) ==
    /\ proc = "running"
    /\ conn[c].stage = "sent"
    /\ conn[c].path \in {"/", "/crash"}
    /\ IF resolverUp
       THEN /\ conn' = [conn EXCEPT ![c].stage = "resolved", ![c].pod = get_pod_info]
            /\ UNCHANGED <<proc, exitCode>>
       ELSE /\ conn' = [d \in Clients |->
                         IF conn[d].stage \in {"sent", "resolved", "returned"}
                         THEN [conn[d] EXCEPT !.stage = "reset"]
                         ELSE conn[d]]
            /\ proc' = "exited"
            /\ exitCode' = 1
    /\ UNCHANGED <<environ, globals, now, resolverUp>>

\* pod_info = get_pod_info() in home() and crash(): the lookup either returns
\* or raises, and the exception leaves the view function.
ResolvePod(c) ==
    /\ proc = "running"
    /\ conn[c].stage = "sent"
    /\ conn[c].path \in {"/", "/crash"}
    /\ IF resolverUp
       THEN conn' = [conn EXCEPT ![c].stage = "resolved", ![c].pod = get_pod_info]
       ELSE Faulted(c, gaierror)
    /\ UNCHANGED <<environ, globals, proc, exitCode, now, resolverUp>>

\* home(), after get_pod_info() returned
Home(c) ==
    /\ proc = "running"
    /\ conn[c].stage = "resolved"
    /\ conn[c].path = "/"
    /\ Returned(c, home(conn[c].pod, now))
    /\ UNCHANGED <<environ, globals, proc, exitCode, now, resolverUp>>

\* health() that looks the pod up first, as home() does
Health_resolves(c) ==
    /\ proc = "running"
    /\ conn[c].stage = "sent"
    /\ conn[c].path = "/health"
    /\ IF resolverUp
       THEN conn' = [conn EXCEPT ![c].stage = "returned", ![c].pod = get_pod_info,
                                 ![c].status = 200, ![c].body = health(now).body]
       ELSE Faulted(c, gaierror)
    /\ UNCHANGED <<environ, globals, proc, exitCode, now, resolverUp>>

\* health()
Health(c) ==
    /\ proc = "running"
    /\ conn[c].stage = "sent"
    /\ conn[c].path = "/health"
    /\ Returned(c, health(now))
    /\ UNCHANGED <<environ, globals, proc, exitCode, now, resolverUp>>

\* metrics()
Metrics(c) ==
    /\ proc = "running"
    /\ conn[c].stage = "sent"
    /\ conn[c].path = "/metrics"
    /\ LET r == metrics(now)
       IN  conn' = [conn EXCEPT ![c].stage = "returned", ![c].status = r.status,
                                ![c].body = r.body, ![c].floor = {}]
    /\ UNCHANGED <<environ, globals, proc, exitCode, now, resolverUp>>

\* A path with no route: the 404 handler
NotFound(c) ==
    /\ proc = "running"
    /\ conn[c].stage = "sent"
    /\ conn[c].path \notin Routes
    /\ Returned(c, not_found("404 Not Found"))
    /\ UNCHANGED <<environ, globals, proc, exitCode, now, resolverUp>>

\* crash(), after the payload was built: os._exit(1).  Every connection that
\* has not had its response written is closed with nothing written.
Crash(c) ==
    /\ proc = "running"
    /\ conn[c].stage = "resolved"
    /\ conn[c].path = "/crash"
    /\ proc' = "exited"
    /\ exitCode' = 1
    /\ conn' = [d \in Clients |->
                  IF conn[d].stage \in {"sent", "resolved", "returned"}
                  THEN [conn[d] EXCEPT !.stage = "reset", !.status = 0,
                                       !.body = NoBody, !.floor = {}]
                  ELSE conn[d]]
    /\ UNCHANGED <<environ, globals, now, resolverUp>>

\* The server writes the returned response to the socket.
Deliver(c) ==
    /\ proc = "running"
    /\ conn[c].stage = "returned"
    /\ conn' = [conn EXCEPT ![c].stage = "delivered"]
    /\ UNCHANGED <<environ, globals, proc, exitCode, now, resolverUp>>

Next ==
    \/ Start
    \/ Tick
    \/ ClockSetBack
    \/ ResolverChange
    \/ EnvChange
    \/ \E c \in Clients, p \in Paths : Request(c, p)
    \/ \E c \in Clients : ResolvePod(c)
    \/ \E c \in Clients : Home(c)
    \/ \E c \in Clients : Health(c)
    \/ \E c \in Clients : Metrics(c)
    \/ \E c \in Clients : NotFound(c)
    \/ \E c \in Clients : Crash(c)
    \/ \E c \in Clients : Deliver(c)

Spec == Init /\ [][Next]_vars


\* ----------------------------------------------- the uptime string alone
\* Elapsed times from zero to MaxDays days and more, at the places where a
\* field of H:MM:SS rolls over, with and without a sub-second part.
FmtSeconds == {0, 1, 59, 60, 3599, 3600, 35999, 36000, 86399}
FmtMicros == {0, 1, 500000, 999999}
FmtInstants ==
    {[s |-> d * 86400 + x, us |-> u] :
        d \in 0..MaxDays, x \in FmtSeconds, u \in FmtMicros}

\* A running process (default configuration) at some elapsed time e >= 0.
InitFmt ==
    /\ environ = [k \in {} |-> ""]
    /\ APP_VERSION = "1.0.0"
    /\ APP_ENV = "development"
    /\ START_TIME \in {[s |-> 0, us |-> 0], [s |-> 0, us |-> 500000]}
    /\ proc = "running"
    /\ exitCode = -1
    /\ now \in {t \in FmtInstants : ~Before(t, START_TIME)}
    /\ resolverUp \in BOOLEAN
    /\ conn = [c \in Clients |-> Idle]

NextFmt ==
    \/ \E c \in Clients, p \in {"/", "/health"} : Request(c, p)
    \/ \E c \in Clients : ResolvePod(c)
    \/ \E c \in Clients : Home(c)
    \/ \E c \in Clients : Health(c)
    \/ \E c \in Clients : Deliver(c)

SpecFmt == InitFmt /\ [][NextFmt]_vars


\* ------------------------------------------------------------- properties
Answered(c) == conn[c].stage \in {"returned", "delivered"}

GenericError ==
    [error |-> "Internal Server Error",
     message |-> "An unexpected condition was encountered by the server."]

NotFoundBody ==
    [error |-> "Not Found",
     message |-> "The requested endpoint does not exist on this service"]

\* C1: the process stops running only in a step taken while a request to
\* /crash is in hand; while no such request has been made it keeps running,
\* whatever lookups fail and whatever undefined routes are requested on any
\* connection.
C1_RunningWithoutCrash ==
    [][(proc = "running" /\ \A c \in Clients : conn[c].path # "/crash") =>
          (proc' = "running" /\ exitCode' = -1)]_vars

\* C1 case: a failed lookup and an undefined route have both been answered and
\* the process runs, no request to /crash being in hand.
C1_Witness ==
    /\ proc = "running"
    /\ \A c \in Clients : conn[c].path # "/crash"
    /\ \E c, d \in Clients :
          /\ conn[c].stage = "delivered" /\ conn[c].fault = gaierror
          /\ conn[d].stage = "delivered" /\ conn[d].path = "/nope"

\* C2: the client of a /crash request never receives a response; its
\* connection ends closed with nothing written and the process has exited
\* with status 1.
C2_CrashSendsNothing ==
    \A c \in Clients :
        (conn[c].path = "/crash" /\ Finished(c)) =>
            (conn[c].stage = "reset" /\ proc = "exited" /\ exitCode = 1)

\* C3: every request routed to crash() ends in process exit: once its handling
\* is over the process has exited with status 1, also when the lookup fails.
C3_CrashAlwaysExits ==
    \A c \in Clients :
        (conn[c].path = "/crash" /\ conn[c].stage \notin {"sent", "resolved"}) =>
            (proc = "exited" /\ exitCode = 1)

\* C4 as stated: every fault escaping a view function is answered with 500
\* and exactly the generic JSON, for every APP_ENV.
C4_GenericErrorAlways ==
    \A c \in Clients :
        (Answered(c) /\ conn[c].fault # "") =>
            (conn[c].status = 500 /\ conn[c].body = GenericError)

\* C4 amended: a fault escaping a view function is answered with 500; the body
\* is exactly the generic JSON when APP_ENV is not 'development', and it is the
\* debugger's page carrying the fault detail when APP_ENV is 'development'.
C4_GenericErrorUnlessDebug ==
    \A c \in Clients :
        (Answered(c) /\ conn[c].fault # "") =>
            /\ conn[c].status = 500
            /\ APP_ENV # "development" => conn[c].body = GenericError
            /\ APP_ENV = "development" => conn[c].body = [traceback |-> conn[c].fault]

\* C4 case: a failed lookup answered while APP_ENV is 'staging'.
C4_Witness ==
    \E c \in Clients :
        /\ conn[c].stage = "delivered"
        /\ conn[c].fault = gaierror
        /\ APP_ENV = "staging"

HomeKeys == {"message", "version", "environment", "pod", "timestamp"}
PodKeys == {"hostname", "ip", "uptime"}
HealthKeys == {"status", "uptime"}
MetricsKeys == {"uptime_seconds", "version", "environment"}

HasKeys(c) ==
    CASE conn[c].path = "/" ->
            /\ HomeKeys \subseteq DOMAIN conn[c].body
            /\ PodKeys \subseteq DOMAIN conn[c].body.pod
      [] conn[c].path = "/health" -> HealthKeys \subseteq DOMAIN conn[c].body
      [] conn[c].path = "/metrics" -> MetricsKeys \subseteq DOMAIN conn[c].body

\* C5 as stated: every answer to /, /health and /metrics is a 200 with the
\* documented keys.
C5_AlwaysOk ==
    \A c \in Clients :
        (Answered(c) /\ conn[c].path \in {"/", "/health", "/metrics"}) =>
            (conn[c].status = 200 /\ HasKeys(c))

\* C5 amended: every answer to /health and /metrics is a 200 with the
\* documented keys; so is every answer to / whose lookup succeeded, and an
\* answer to / whose lookup failed is a 500.
C5_OkUnlessLookupFails ==
    \A c \in Clients :
        (Answered(c) /\ conn[c].path \in {"/", "/health", "/metrics"}) =>
            IF conn[c].path = "/" /\ conn[c].fault # ""
            THEN conn[c].status = 500
            ELSE conn[c].status = 200 /\ HasKeys(c)

\* C5 case: the three routes answered, / both with a lookup that worked and
\* with one that failed.
C5_Witness ==
    \E c, d \in Clients :
        /\ conn[c].stage = "delivered" /\ conn[c].path = "/" /\ conn[c].status = 200
        /\ conn[d].stage = "delivered" /\ conn[d].path = "/" /\ conn[d].fault # ""

\* C6: every answer to /health is a 200 with status "healthy", and the step
\* that produces it looks nothing up and leaves the process state (globals,
\* environment, liveness) as it was, whatever the clock and the resolver say.
C6_HealthAlwaysHealthy ==
    /\ [](\A c \in Clients :
            (Answered(c) /\ conn[c].path = "/health") =>
                (conn[c].status = 200 /\ conn[c].body.status = "healthy"))
    /\ [][\A c \in Clients :
            (/\ conn[c].path = "/health"
             /\ conn[c].stage = "sent"
             /\ conn'[c].stage \notin {"sent", "reset"}) =>
                /\ conn'[c].stage = "returned"
                /\ conn'[c].status = 200
                /\ conn'[c].fault = ""
                /\ conn'[c].pod = NoPod
                /\ UNCHANGED <<environ, globals, proc, exitCode, now, resolverUp>>]_vars

\* C6 case: /health answered after time has passed and other requests were
\* served, while the resolver is down.
C6_Witness ==
    \E c, d \in Clients :
        /\ conn[c].stage = "returned" /\ conn[c].path = "/health"
        /\ ~resolverUp
        /\ Before(START_TIME, now)
        /\ conn[d].stage = "delivered" /\ conn[d].fault # ""

\* C7: a request to a path with no route is answered with 404 and exactly the
\* Not Found JSON, and answering it leaves the process running.
C7_UndefinedRoute404 ==
    /\ [](\A c \in Clients :
            (Answered(c) /\ conn[c].path \notin Routes) =>
                (conn[c].status = 404 /\ conn[c].body = NotFoundBody))
    /\ [][\A c \in Clients :
            (/\ conn[c].path \notin Routes
             /\ conn[c].stage = "sent"
             /\ conn'[c].stage = "returned") =>
                (proc' = "running" /\ exitCode' = -1)]_vars

\* C7 case: an undefined route answered.
C7_Witness ==
    \E c \in Clients :
        /\ conn[c].stage = "delivered" /\ conn[c].path = "/nope"
        /\ conn[c].status = 404
        /\ proc = "running"

\* C8: a /metrics call reports an uptime_seconds no smaller than that of any
\* /metrics call that completed before it began.
C8_UptimeMonotone ==
    [][\A c \in Clients :
         (/\ conn[c].path = "/metrics"
          /\ conn[c].stage = "sent"
          /\ conn'[c].stage = "returned") =>
             \A f \in conn[c].floor : conn'[c].body.uptime_seconds >= f]_vars

\* C9: the globals are set at startup from the environment of that moment and
\* no later step writes them; / and /metrics report those values, also after
\* the environment variables changed.
C9_GlobalsFrozen ==
    /\ [][IF proc = "init"
          THEN proc' = "running" =>
                 /\ APP_VERSION' = (IF "APP_VERSION" \in DOMAIN environ
                                    THEN environ["APP_VERSION"] ELSE "1.0.0")
                 /\ APP_ENV' = (IF "APP_ENV" \in DOMAIN environ
                                THEN environ["APP_ENV"] ELSE "development")
                 /\ START_TIME' = now
          ELSE UNCHANGED globals]_vars
    /\ [](\A c \in Clients :
            (Answered(c) /\ conn[c].path \in {"/", "/metrics"} /\ conn[c].status = 200) =>
                (conn[c].body.version = APP_VERSION
                 /\ conn[c].body.environment = APP_ENV))

\* C9 case: /metrics answered with the startup values after the environment
\* changed.
C9_Witness ==
    \E c \in Clients :
        /\ conn[c].stage = "delivered" /\ conn[c].path = "/metrics"
        /\ conn[c].body.version = "2.3.1"
        /\ conn[c].body.environment = "staging"
        /\ DOMAIN environ = {}

\* Whole seconds elapsed since START_TIME, floor(e / 10^6).
WholeSeconds ==
    (now.s - START_TIME.s) - (IF now.us < START_TIME.us THEN 1 ELSE 0)

TwoDigits(n) == <<Digit(n \div 10), Digit(n % 10)>>

\* H:MM:SS of t whole seconds, H in 0..23
Clock(t) ==
    NatStr((t % 86400) \div 3600) \o <<":">> \o TwoDigits((t % 3600) \div 60)
        \o <<":">> \o TwoDigits(t % 60)

Renderings(t) ==
    IF t < 86400
    THEN {Clock(t)}
    ELSE {NatStr(t \div 86400) \o <<" ", "d", "a", "y", ",", " ">> \o Clock(t),
          NatStr(t \div 86400) \o <<" ", "d", "a", "y", "s", ",", " ">> \o Clock(t)}

UptimeOf(c) ==
    IF conn[c].path = "/" THEN conn[c].body.pod.uptime ELSE conn[c].body.uptime

\* C10: for an elapsed time e >= 0 the uptime string of / and /health is
\* H:MM:SS of floor(e / 10^6) seconds, prefixed by 'D day, ' or 'D days, '
\* exactly from one day on, with no fraction and no rounding up.
C10_UptimeString ==
    \A c \in Clients :
        (Answered(c) /\ conn[c].path \in {"/", "/health"} /\ conn[c].status = 200) =>
            UptimeOf(c) \in Renderings(WholeSeconds)

\* C10 case: an uptime string for more than a day with a sub-second part of
\* at least half a second.
C10_Witness ==
    \E c \in Clients :
        /\ conn[c].stage = "delivered" /\ conn[c].path = "/" /\ conn[c].status = 200
        /\ WholeSeconds >= 86400
        /\ timedelta_sub(now, START_TIME).microseconds >= 500000

====
